---- MODULE Spec2Model ----
(***************************************************************************)
(* Parser registry, generic resolver and component factory of             *)
(* disnake-ext-components (impl/parser/base.py, impl/factory.py).          *)
(***************************************************************************)
EXTENDS Integers, Sequences, FiniteSets, TLC

VARIABLES
    _PARSERS,       \* base.py:18  dict: type -> parser class
    _REV_PARSERS,   \* base.py:19  dict: parser class -> tuple of types, as an
                    \*             insertion-ordered sequence of [parser, types]
    first_order,    \* history: parser classes by their first register_parser call
    last_order,     \* history: parser classes by the register_parser call that
                    \*          wrote the tuple _REV_PARSERS now holds for them
    ret,            \* the last call of the registry API and what it returned
    builder_parsers,\* factory.py:41  ComponentFactoryBuilder.parsers: name -> parser
    factories,      \* the ComponentFactory objects created so far
    next_id,        \* the identity of the next parser object created
    result,         \* the last call on the builder or a factory and its outcome
    call,           \* the frame of the ComponentFactory.loads call in progress
    trace           \* the parser loads calls made by that call, in order

reg_vars == <<_PARSERS, _REV_PARSERS, first_order, last_order, ret>>

builder_vars == <<builder_parsers, factories, next_id, result>>

loads_vars == <<call, trace>>

vars == <<_PARSERS, _REV_PARSERS, first_order, last_order, ret,
          builder_parsers, factories, next_id, result, call, trace>>

(***************************************************************************)
(* Sequences and insertion-ordered dicts                                   *)
(***************************************************************************)
Range(s) == {s[i] : i \in DOMAIN s}

Remove(s, x) == SelectSeq(s, LAMBDA y : y # x)

\* Sequences over S of length 0..n
SeqUpTo(S, n) == UNION {[1..k -> S] : k \in 0..n}

\* The index of key k in the ordered dict d, 0 when absent
DictIndex(d, k) ==
    IF \E i \in DOMAIN d : d[i].parser = k
    THEN CHOOSE i \in DOMAIN d : d[i].parser = k
    ELSE 0

\* d[k] = v: an existing key keeps its position, a new key goes last
DictSet_move_to_end(d, k, v) ==
    Append(SelectSeq(d, LAMBDA e : e.parser # k), [parser |-> k, types |-> v])

DictSet(d, k, v) ==
    IF DictIndex(d, k) # 0
    THEN [d EXCEPT ![DictIndex(d, k)] = [parser |-> k, types |-> v]]
    ELSE Append(d, [parser |-> k, types |-> v])

\* d.setdefault(k, v)
DictSetDefault(d, k, v) ==
    IF DictIndex(d, k) # 0 THEN d ELSE Append(d, [parser |-> k, types |-> v])

(***************************************************************************)
(* Types and type expressions                                              *)
(***************************************************************************)
\* A plain class, and a parameterized alias origin[args]
Cls(n) == [origin |-> "", name |-> n, args |-> <<>>]

Gen(o, a) == [origin |-> o, name |-> "", args |-> a]

\* typing.get_origin(type_): "" stands for None
get_origin(type_) == type_.origin

\* typing.get_args(type_)
get_args(type_) == type_.args

\* The direct base class of every class of the universe
Parent ==
    [Base |-> "object", Derived |-> "Base", Sub |-> "Derived", Other |-> "Base",
     int |-> "object", bool |-> "int", str |-> "object", NoneType |-> "object",
     float |-> "object",
     Collection |-> "object", tuple |-> "Collection", list |-> "Collection",
     GuildChannel |-> "object", TextChannel |-> "GuildChannel",
     VoiceChannel |-> "GuildChannel", object |-> "object"]

\* typing special forms: not classes, issubclass() raises TypeError on them
SpecialForms == {"Union"}

IsClass(t) == t \in DOMAIN Parent

RECURSIVE Mro(_)
Mro(c) == IF c = "object" THEN {c} ELSE {c} \cup Mro(Parent[c])

\* The builtin issubclass(c, d) for two classes
IsSubclassOf(c, d) == d \in Mro(c)

(***************************************************************************)
(* base.py: _issubclass, register_parser, _get_parser_type                 *)
(***************************************************************************)
\* issubclass(cls, tuple) walks the tuple in order: it answers True at the
\* first superclass and raises TypeError at the first member that is not a
\* class (or at once when cls is not a class); the except branch then
\* compares identities.
_issubclass(cls, class_or_tuple) ==
    LET stop(i) == \/ ~IsClass(class_or_tuple[i])
                   \/ IsSubclassOf(cls, class_or_tuple[i])
        identity == \E i \in DOMAIN class_or_tuple : class_or_tuple[i] = cls
    IN  IF ~IsClass(cls) THEN identity
        ELSE IF \A i \in DOMAIN class_or_tuple : ~stop(i) THEN FALSE
        ELSE LET k == CHOOSE i \in DOMAIN class_or_tuple :
                          stop(i) /\ \A j \in 1..(i - 1) : ~stop(j)
             IN  IF IsClass(class_or_tuple[k]) THEN TRUE ELSE identity

\* base.py:65  typing.get_origin(type_) or type_
TypeKey(type_) == IF get_origin(type_) # "" THEN get_origin(type_) ELSE type_.name

NormTypes(types) == [i \in DOMAIN types |-> TypeKey(types[i])]

\* for type in types: _PARSERS.setdefault(type, parser)
BindDefault_overwrite(P, keys, parser) ==
    [k \in DOMAIN P \cup Range(keys) |-> IF k \in Range(keys) THEN parser ELSE P[k]]

BindDefault(P, keys, parser) ==
    [k \in DOMAIN P \cup Range(keys) |-> IF k \in DOMAIN P THEN P[k] ELSE parser]

\* for type in types: _PARSERS[type] = parser
BindAll_keep(P, keys, parser) ==
    [k \in DOMAIN P \cup Range(keys) |-> IF k \in DOMAIN P THEN P[k] ELSE parser]

BindAll(P, keys, parser) ==
    [k \in DOMAIN P \cup Range(keys) |-> IF k \in Range(keys) THEN parser ELSE P[k]]

\* Results of a call: a parser class or instance, or a raised TypeError
Ok(cls, args, ctype) ==
    [ok |-> TRUE, err |-> "", cls |-> cls, args |-> args, collection_type |-> ctype]

Raise(e, t) ==
    [ok |-> FALSE, err |-> e, cls |-> "", args |-> <<>>, collection_type |-> t]

NoParserAvailable == "No parser available for type"

CouldNotCreate == "Could not create a parser for type"

IssubclassArg1 == "issubclass() arg 1 must be a class"

\* base.py:87-89  the first parser of _REV_PARSERS.items() whose tuple is
\* compatible with type_, "" when there is none
SlowLookup(type_) ==
    IF \E i \in DOMAIN _REV_PARSERS : _issubclass(type_, _REV_PARSERS[i].types)
    THEN LET k == CHOOSE i \in DOMAIN _REV_PARSERS :
                      /\ _issubclass(type_, _REV_PARSERS[i].types)
                      /\ \A j \in 1..(i - 1) :
                             ~_issubclass(type_, _REV_PARSERS[j].types)
         IN  _REV_PARSERS[k].parser
    ELSE ""

_get_parser_type_slow_only(type_) ==
    IF SlowLookup(type_) # "" THEN Ok(SlowLookup(type_), <<>>, "")
    ELSE Raise(NoParserAvailable, type_)

_get_parser_type(type_) ==
    IF type_ \in DOMAIN _PARSERS THEN Ok(_PARSERS[type_], <<>>, "")
    ELSE IF SlowLookup(type_) # "" THEN Ok(SlowLookup(type_), <<>>, "")
    ELSE Raise(NoParserAvailable, type_)

(***************************************************************************)
(* base.py: Parser.default, get_parser                                     *)
(***************************************************************************)
\* Parser.default(): cls()
default(cls) == Ok(cls, <<>>, "")

\* parser_type(*inner_parsers), parser_type(inner_parser, collection_type=origin)
Construct_reversed(parser_type, inner_parsers, collection_type) ==
    Ok(parser_type,
       [i \in DOMAIN inner_parsers |->
            inner_parsers[Len(inner_parsers) + 1 - i]],
       collection_type)

Construct(parser_type, inner_parsers, collection_type) ==
    Ok(parser_type, inner_parsers, collection_type)

\* A list comprehension over calls that may raise: the first raised error,
\* or the list
FirstRaised(results) ==
    LET k == CHOOSE i \in DOMAIN results :
                 ~results[i].ok /\ \A j \in 1..(i - 1) : results[j].ok
    IN  results[k]

AllOk(results) == \A i \in DOMAIN results : results[i].ok

RECURSIVE get_parser(_)
get_parser(type_) ==
    LET origin == get_origin(type_) IN
    IF origin = ""
    THEN LET found == _get_parser_type(type_.name)
         IN  IF found.ok THEN default(found.cls) ELSE found
    ELSE
    LET parser_type == _get_parser_type(origin)
        type_args == get_args(type_)
    IN  IF ~parser_type.ok THEN parser_type
        ELSE IF origin = "Union"
        THEN LET inner_parsers == [i \in DOMAIN type_args |-> get_parser(type_args[i])]
             IN  IF AllOk(inner_parsers)
                 THEN Construct(parser_type.cls, inner_parsers, "")
                 ELSE FirstRaised(inner_parsers)
        ELSE IF ~IsClass(origin) THEN Raise(IssubclassArg1, origin)
        ELSE IF IsSubclassOf(origin, "tuple")
        THEN LET inner_parsers == [i \in DOMAIN type_args |-> get_parser(type_args[i])]
             IN  IF AllOk(inner_parsers)
                 THEN Construct(parser_type.cls, inner_parsers, "")
                 ELSE FirstRaised(inner_parsers)
        ELSE IF IsSubclassOf(origin, "Collection")
        THEN LET inner_type == IF Len(type_args) > 0 THEN type_args[1] ELSE Cls("str")
                 inner_parser == get_parser(inner_type)
             IN  IF inner_parser.ok
                 THEN Construct(parser_type.cls, <<inner_parser>>, origin)
                 ELSE inner_parser
        ELSE Raise(CouldNotCreate, origin)

(***************************************************************************)
(* The registry API as operations                                          *)
(***************************************************************************)
NoType == Cls("")

Called(op, parser, types, force, type_, out) ==
    [op |-> op, parser |-> parser, types |-> types, force |-> force,
     type_ |-> type_, out |-> out]

Returned(cls) == Ok(cls, <<>>, "")

\* base.py:41-75
register_parser(parser, types, force) ==
    /\ _REV_PARSERS' = IF force
                       THEN DictSet(_REV_PARSERS, parser, NormTypes(types))
                       ELSE DictSetDefault(_REV_PARSERS, parser, NormTypes(types))
    /\ _PARSERS' = IF force
                   THEN BindAll(_PARSERS, NormTypes(types), parser)
                   ELSE BindDefault(_PARSERS, NormTypes(types), parser)
    /\ first_order' = IF parser \in Range(first_order)
                      THEN first_order ELSE Append(first_order, parser)
    /\ last_order' = IF force \/ parser \notin Range(last_order)
                     THEN Append(Remove(last_order, parser), parser)
                     ELSE last_order
    /\ ret' = Called("register_parser", parser, types, force, NoType, Returned("None"))

\* base.py:78-92
GetParserType(type_) ==
    /\ ret' = Called("_get_parser_type", "", <<>>, FALSE, Cls(type_),
                     _get_parser_type(type_))
    /\ UNCHANGED <<_PARSERS, _REV_PARSERS, first_order, last_order>>

\* base.py:96-145
GetParser(type_) ==
    /\ ret' = Called("get_parser", "", <<>>, FALSE, type_, get_parser(type_))
    /\ UNCHANGED <<_PARSERS, _REV_PARSERS, first_order, last_order>>

NoInstance == [id |-> 0, parser |-> Ok("", <<>>, "")]

NoField == [name |-> "", type |-> NoType, parser |-> NoInstance]

\* No builder, factory or loads call yet
FactoryIdle ==
    /\ builder_parsers = <<>>
    /\ factories = <<>>
    /\ next_id = 1
    /\ result = [op |-> "import", field |-> NoField, before |-> NoInstance,
                 raised |-> FALSE, out |-> NoInstance]
    /\ call = [pc |-> "idle"]
    /\ trace = <<>>

RegistryEmpty ==
    /\ _PARSERS = <<>>
    /\ _REV_PARSERS = <<>>
    /\ first_order = <<>>
    /\ last_order = <<>>
    /\ ret = Called("import", "", <<>>, FALSE, NoType, Returned("None"))

(***************************************************************************)
(* SpecRegistry: any parser registered for any classes of one hierarchy    *)
(***************************************************************************)
MaxTypes == 2

ParserClasses == {"X", "Y"}

\* The types handed to register_parser: three classes of one hierarchy
RegTypeList == <<Cls("Base"), Cls("Derived"), Cls("Other")>>

RegTypeTuples ==
    LET picks == {s \in SeqUpTo(DOMAIN RegTypeList, MaxTypes) :
                      \A i \in 1..(Len(s) - 1) : s[i] < s[i + 1]}
    IN  {[i \in DOMAIN s |-> RegTypeList[s[i]]] : s \in picks}

\* The classes looked up
LookupClasses == {"Base", "Derived", "Sub", "Other", "int"}

RegistryInit == RegistryEmpty /\ FactoryIdle

Register ==
    /\ \E parser \in ParserClasses, types \in RegTypeTuples, force \in BOOLEAN :
           register_parser(parser, types, force)
    /\ UNCHANGED <<builder_vars, loads_vars>>

LookupType ==
    /\ \E type_ \in LookupClasses : GetParserType(type_)
    /\ UNCHANGED <<builder_vars, loads_vars>>

RegistryNext == Register \/ LookupType

SpecRegistry == RegistryInit /\ [][RegistryNext]_vars

(***************************************************************************)
(* Claims on the registry                                                  *)
(***************************************************************************)
\* The tuple the reverse index holds for parser p (default_types)
RevTypes(p) == _REV_PARSERS[DictIndex(_REV_PARSERS, p)].types

InReverse(p) == DictIndex(_REV_PARSERS, p) # 0

\* Parser p has, in the reverse index, a key that class s is or derives from
Compatible(p, s) == InReverse(p) /\ _issubclass(s, RevTypes(p))

\* The first member of the sequence order that lies in the set S
FirstIn(order, S) ==
    order[CHOOSE i \in DOMAIN order :
              order[i] \in S /\ \A j \in 1..(i - 1) : order[j] \notin S]

\* C1: after register_parser(P, T1..Tn) with force=True the exact-type lookup
\* of every Ti returns P, whatever was registered before.
C1_ForceRegisterBinds ==
    (ret.op = "register_parser" /\ ret.force) =>
        \A i \in DOMAIN ret.types :
            _get_parser_type(TypeKey(ret.types[i])) = Returned(ret.parser)

\* A forced registration of two types, one of which the other parser class
\* had registered for itself before
C1_Witness ==
    /\ ret.op = "register_parser" /\ ret.force /\ Len(ret.types) = 2
    /\ \E q \in ParserClasses \ {ret.parser} :
           /\ InReverse(q)
           /\ TypeKey(ret.types[1]) \in Range(RevTypes(q))
           /\ _PARSERS[TypeKey(ret.types[1])] = ret.parser

\* C2: register_parser(P, T1..Tn, force=False) keeps every existing binding,
\* binds only the unbound Ti (to P) and touches no other type.
C2_NonForceKeepsBindings ==
    [][(ret'.op = "register_parser" /\ ~ret'.force) =>
          /\ \A k \in DOMAIN _PARSERS :
                 k \in DOMAIN _PARSERS' /\ _PARSERS'[k] = _PARSERS[k]
          /\ \A k \in DOMAIN _PARSERS' \ DOMAIN _PARSERS :
                 k \in Range(NormTypes(ret'.types)) /\ _PARSERS'[k] = ret'.parser
          /\ Range(NormTypes(ret'.types)) \subseteq DOMAIN _PARSERS']_vars

\* A non-forcing registration of two types: one stayed with the other parser
\* class, one was unbound and now belongs to the registered parser
C2_Witness ==
    /\ ret.op = "register_parser" /\ ~ret.force /\ Len(ret.types) = 2
    /\ \E i, j \in DOMAIN ret.types :
           /\ _PARSERS[TypeKey(ret.types[i])] # ret.parser
           /\ _PARSERS[TypeKey(ret.types[j])] = ret.parser
           /\ ~Compatible(ret.parser, TypeKey(ret.types[i]))

\* X is registered for exactly b, Y for exactly d, a proper subclass of b,
\* no other parser class is registered and neither of the two was registered
\* again after the other
PrecedenceCase(X, Y, b, d) ==
    /\ X # Y /\ b # d /\ IsSubclassOf(d, b)
    /\ first_order = last_order
    /\ b \in DOMAIN _PARSERS /\ _PARSERS[b] = X
    /\ d \in DOMAIN _PARSERS /\ _PARSERS[d] = Y
    /\ InReverse(X) /\ RevTypes(X) = <<b>>
    /\ InReverse(Y) /\ RevTypes(Y) = <<d>>
    /\ \A i \in DOMAIN _REV_PARSERS : _REV_PARSERS[i].parser \in {X, Y}

\* The other subclasses of b that have no registration of their own
Unregistered(b, d) ==
    {s \in LookupClasses : s # b /\ s # d /\ IsSubclassOf(s, b) /\ s \notin DOMAIN _PARSERS}

\* C3 as stated: with X registered for Base and Y for Derived, in either
\* order, Derived resolves to Y and every other unregistered subclass of
\* Base resolves to X.
C3_AsStated ==
    \A X \in ParserClasses, Y \in ParserClasses, b \in LookupClasses, d \in LookupClasses :
        PrecedenceCase(X, Y, b, d) =>
            /\ _get_parser_type(d) = Returned(Y)
            /\ \A s \in Unregistered(b, d) : _get_parser_type(s) = Returned(X)

\* C3, amended: Derived resolves to Y; an unregistered subclass of Base that
\* is not a subclass of Derived resolves to X; an unregistered subclass of
\* Derived resolves to whichever of X and Y was registered first.
C3_Precedence ==
    \A X \in ParserClasses, Y \in ParserClasses, b \in LookupClasses, d \in LookupClasses :
        PrecedenceCase(X, Y, b, d) =>
            /\ _get_parser_type(d) = Returned(Y)
            /\ \A s \in Unregistered(b, d) :
                   _get_parser_type(s) =
                       Returned(IF IsSubclassOf(s, d)
                                THEN FirstIn(first_order, {X, Y}) ELSE X)

\* Y was registered for Derived before X for Base, and both a subclass of
\* Derived and another subclass of Base are looked up without registration
C3_Witness ==
    /\ PrecedenceCase("X", "Y", "Base", "Derived")
    /\ first_order = <<"Y", "X">>
    /\ {"Sub", "Other"} \subseteq Unregistered("Base", "Derived")
    /\ ret.op = "_get_parser_type" /\ ret.type_ = Cls("Sub")
    /\ ret.out = Returned("Y")

\* The parser classes with a registered key that class t is or derives from
CompatibleParsers(t) == {p \in ParserClasses : Compatible(p, t)}

\* C4 as stated: without an exact binding, and with several compatible
\* parser classes, the lookup returns the first of them in the order of the
\* register calls that registered their keys, also after a forced
\* re-registration.
C4_AsStated ==
    \A t \in LookupClasses :
        (t \notin DOMAIN _PARSERS /\ Cardinality(CompatibleParsers(t)) >= 2) =>
            _get_parser_type(t) = Returned(FirstIn(last_order, CompatibleParsers(t)))

\* C4, amended: the lookup returns the first compatible parser class in the
\* order of the parser classes' first register call; a forced
\* re-registration replaces the keys of a class and keeps its position.
C4_FirstRegistrationOrder ==
    \A t \in LookupClasses :
        (t \notin DOMAIN _PARSERS /\ Cardinality(CompatibleParsers(t)) >= 2) =>
            _get_parser_type(t) = Returned(FirstIn(first_order, CompatibleParsers(t)))

\* Two compatible parser classes, the earlier one re-registered after the
\* later one, and the lookup of an unbound subclass
C4_Witness ==
    /\ ret.op = "_get_parser_type"
    /\ ret.type_.name \notin DOMAIN _PARSERS
    /\ Cardinality(CompatibleParsers(ret.type_.name)) >= 2
    /\ first_order # last_order
    /\ ret.out = Returned(first_order[1])

(***************************************************************************)
(* SpecResolver: the parser classes of the library are defined in import   *)
(* order, a user's parser class at any time, and type expressions resolved *)
(***************************************************************************)
MaxArgs == 2

\* base.py:163-174  class definitions with is_default_for, in import order
BuiltinParsers ==
    <<[cls |-> "StringParser", is_default_for |-> <<Cls("str")>>],
      [cls |-> "IntParser", is_default_for |-> <<Cls("int")>>],
      [cls |-> "UnionParser", is_default_for |-> <<Cls("Union")>>],
      [cls |-> "TupleParser", is_default_for |-> <<Gen("tuple", <<Cls("Any")>>)>>],
      [cls |-> "CollectionParser",
       is_default_for |-> <<Gen("Collection", <<Cls("Any")>>)>>],
      [cls |-> "NoneParser", is_default_for |-> <<Cls("NoneType")>>]>>

\* A parser class of the user for a generic class Base[T]
UserParser == [cls |-> "BaseParser", is_default_for |-> <<Cls("Base")>>]

\* base.py:163-174  Parser.__init_subclass__
InitSubclass(cls, is_default_for) ==
    IF Len(is_default_for) > 0
    THEN register_parser(cls, is_default_for, TRUE)
    ELSE UNCHANGED <<_PARSERS, _REV_PARSERS, first_order, last_order, ret>>

Atoms == {Cls("str"), Cls("int"), Cls("bool"), Cls("NoneType")}

\* Union[...], Optional[...]: two or more distinct alternatives
Unions(S) ==
    {Gen("Union", a) : a \in {s \in SeqUpTo(S, MaxArgs) :
                                  Len(s) >= 2 /\ Cardinality(Range(s)) = Len(s)}}

Tuples(S) == {Gen("tuple", a) : a \in {s \in SeqUpTo(S, MaxArgs) : Len(s) >= 1}}

Collections(S) == {Gen("list", a) : a \in SeqUpTo(S, 1)}

OtherGenerics(S) == {Gen("Base", <<a>>) : a \in S}

Nested ==
    {Cls("str"), Cls("NoneType"), Gen("list", <<Cls("int")>>),
     Gen("tuple", <<Cls("str"), Cls("bool")>>), Gen("Base", <<Cls("int")>>),
     Gen("Union", <<Cls("int"), Cls("str")>>)}

TypeExprs ==
    Atoms \cup Unions(Atoms) \cup Tuples(Atoms) \cup Collections(Atoms)
          \cup OtherGenerics(Atoms) \cup Unions(Nested) \cup Collections(Nested)

ResolverInit == RegistryEmpty /\ FactoryIdle

ImportNext ==
    /\ \E i \in DOMAIN BuiltinParsers :
           /\ BuiltinParsers[i].cls \notin Range(first_order)
           /\ \A j \in 1..(i - 1) : BuiltinParsers[j].cls \in Range(first_order)
           /\ InitSubclass(BuiltinParsers[i].cls, BuiltinParsers[i].is_default_for)
    /\ UNCHANGED <<builder_vars, loads_vars>>

DefineUserParser ==
    /\ InitSubclass(UserParser.cls, UserParser.is_default_for)
    /\ UNCHANGED <<builder_vars, loads_vars>>

Resolve ==
    /\ \E type_ \in TypeExprs : GetParser(type_)
    /\ UNCHANGED <<builder_vars, loads_vars>>

ResolverNext == ImportNext \/ DefineUserParser \/ Resolve

SpecResolver == ResolverInit /\ [][ResolverNext]_vars

(***************************************************************************)
(* Claims on the resolver                                                  *)
(***************************************************************************)
\* C5: resolving a union of N alternatives resolves every alternative (the
\* none-type of an optional too) and returns the union parser holding exactly
\* the N inner parsers in the declared order; an unresolvable alternative
\* makes the resolution fail.
C5_UnionHoldsAlternatives ==
    (/\ ret.op = "get_parser"
     /\ get_origin(ret.type_) = "Union"
     /\ _get_parser_type("Union").ok) =>
        LET alts == get_args(ret.type_) IN
        IF \A i \in DOMAIN alts : get_parser(alts[i]).ok
        THEN /\ ret.out.ok
             /\ ret.out.cls = _PARSERS["Union"]
             /\ Len(ret.out.args) = Len(alts)
             /\ \A i \in DOMAIN alts :
                    /\ ret.out.args[i] = get_parser(alts[i])
                    /\ (get_origin(alts[i]) = "" /\ alts[i].name \in DOMAIN _PARSERS)
                           => ret.out.args[i].cls = _PARSERS[alts[i].name]
        ELSE ~ret.out.ok

\* An optional of a parameterized type was resolved: the inner parsers are
\* those of the alternative and of the none-type, in that order
C5_Witness ==
    /\ ret.op = "get_parser"
    /\ ret.type_ = Gen("Union", <<Gen("list", <<Cls("int")>>), Cls("NoneType")>>)
    /\ ret.out.ok
    /\ ret.out.cls = "UnionParser"
    /\ ret.out.args[1].cls = "CollectionParser"
    /\ ret.out.args[2].cls = "NoneParser"

\* The origin of a parameterized type is neither Union, a tuple nor a
\* collection
OtherShape(type_) ==
    /\ get_origin(type_) \notin {"", "Union"}
    /\ ~(IsClass(get_origin(type_)) /\ IsSubclassOf(get_origin(type_), "Collection"))

\* C6: resolving a parameterized type whose origin is neither a union, a
\* tuple nor a collection fails with "could not create a parser", never with
\* "no parser available", whether or not a parser is registered for the
\* origin.
C6_OtherShapeUnsupported ==
    (ret.op = "get_parser" /\ OtherShape(ret.type_)) =>
        (~ret.out.ok /\ ret.out.err = CouldNotCreate)

(***************************************************************************)
(* factory.py: ComponentFactoryBuilder, ComponentFactory.from_component    *)
(***************************************************************************)
MaxObjects == 4

MaxFactories == 2

\* channel.py:181-185, 276-280  the get-only and then the fetching parser
\* class of TextChannel, defined after the parser classes of the builtins
LibraryParsers ==
    BuiltinParsers \o
    <<[cls |-> "FloatParser", is_default_for |-> <<Cls("float")>>],
      [cls |-> "GetTextChannelParser", is_default_for |-> <<Cls("TextChannel")>>],
      [cls |-> "TextChannelParser", is_default_for |-> <<Cls("TextChannel")>>]>>

\* The registry after the first n class definitions of the library
RECURSIVE Imported(_)
Imported(n) ==
    IF n = 0 THEN [forward |-> <<>>, reverse |-> <<>>]
    ELSE LET before == Imported(n - 1)
             types == NormTypes(LibraryParsers[n].is_default_for)
         IN  [forward |-> BindAll(before.forward, types, LibraryParsers[n].cls),
              reverse |-> DictSet(before.reverse, LibraryParsers[n].cls, types)]

RegistryImported ==
    /\ _PARSERS = Imported(Len(LibraryParsers)).forward
    /\ _REV_PARSERS = Imported(Len(LibraryParsers)).reverse
    /\ first_order = [i \in DOMAIN LibraryParsers |-> LibraryParsers[i].cls]
    /\ last_order = [i \in DOMAIN LibraryParsers |-> LibraryParsers[i].cls]
    /\ ret = Called("import", "", <<>>, FALSE, NoType, Returned("None"))

\* A field descriptor (attr.Attribute): name, declared type (NoType when
\* untyped) and the parser given to the field (NoInstance when none)
Field(name, type, parser) == [name |-> name, type |-> type, parser |-> parser]

\* Parser objects the user made and handed to a field
ExplicitParsers == {[id |-> 101, parser |-> Ok("CustomParser", <<>>, "")]}

FieldNames == {"user_id", "page"}

FieldTypes ==
    {NoType, Cls("int"), Cls("Base"), Gen("tuple", <<Cls("int"), Cls("str")>>)}

Fields ==
    {Field(n, t, p) : n \in FieldNames, t \in FieldTypes,
                      p \in ExplicitParsers \cup {NoInstance}}

\* The identifier-carrying fields of the component class, in declaration order
ComponentFields ==
    <<Field("user_id", Cls("int"), NoInstance),
      Field("page", Cls("int"), NoInstance),
      Field("channel", Cls("TextChannel"), NoInstance)>>

\* fields.get_parser(field)
fields_get_parser(field) == field.parser

\* fields.get_fields(component, kind=fields.FieldType.CUSTOM_ID)
fields_get_fields == ComponentFields

\* factory.py:63-64, 111  parser_base.get_parser(field.type or str).default()
NewParser(field) ==
    LET field_type == IF field.type = NoType THEN Cls("str") ELSE field.type
        resolved == get_parser(field_type)
    IN  IF resolved.ok THEN default(resolved.cls) ELSE resolved

\* factory.py:66, 113  parsers[field.name] = parser
Recorded_keep(parsers, name, parser) ==
    [n \in DOMAIN parsers \cup {name} |->
        IF n \in DOMAIN parsers THEN parsers[n] ELSE parser]

Recorded(parsers, name, parser) ==
    [n \in DOMAIN parsers \cup {name} |-> IF n = name THEN parser ELSE parsers[n]]

Binding(parsers, name) == IF name \in DOMAIN parsers THEN parsers[name] ELSE NoInstance

Outcome(op, field, before, raised, out) ==
    [op |-> op, field |-> field, before |-> before, raised |-> raised, out |-> out]

\* factory.py:60-67  parser is the parser of the descriptor, made the one
\* resolved for its type
Added(field, parser, made, before) ==
    IF parser # NoInstance
    THEN /\ builder_parsers' = Recorded(builder_parsers, field.name, parser)
         /\ result' = Outcome("add_field", field, before, FALSE, parser)
         /\ UNCHANGED <<factories, next_id>>
    ELSE IF ~made.ok
    THEN /\ result' = Outcome("add_field", field, before, TRUE, [id |-> 0, parser |-> made])
         /\ UNCHANGED <<builder_parsers, factories, next_id>>
    ELSE /\ next_id <= MaxObjects
         /\ builder_parsers' =
                Recorded(builder_parsers, field.name, [id |-> next_id, parser |-> made])
         /\ next_id' = next_id + 1
         /\ result' = Outcome("add_field", field, before, FALSE,
                              [id |-> next_id, parser |-> made])
         /\ UNCHANGED factories

\* factory.py:44-67
add_field(field) ==
    Added(field, fields_get_parser(field), NewParser(field),
          Binding(builder_parsers, field.name))

\* factory.py:69-79  a factory over types.MappingProxyType(self.parsers): a
\* read-only view of the dict of the builder
build ==
    /\ Len(factories) < MaxFactories
    /\ factories' = Append(factories, [proxy |-> TRUE, parsers |-> <<>>])
    /\ result' = Outcome("build", NoField, NoInstance, FALSE, NoInstance)
    /\ UNCHANGED <<builder_parsers, next_id>>

\* The mapping seen through a factory
FactoryParsers(factory) ==
    IF factory.proxy THEN builder_parsers ELSE factory.parsers

\* factory.py:106-113  the dict from_component fills from the fields, new
\* being the parser made for each field without one; the identities of the
\* parser objects start at id, and the first field whose type has no parser
\* raises
Collect(fields, id, new) ==
    LET made(i) == fields_get_parser(fields[i]) = NoInstance
        object(i) == id + Cardinality({j \in 1..(i - 1) : made(j)})
        failing == {i \in DOMAIN fields : made(i) /\ ~new[i].ok}
        last(n) == CHOOSE i \in DOMAIN fields :
                       /\ fields[i].name = n
                       /\ \A j \in DOMAIN fields : fields[j].name = n => j <= i
    IN  IF failing # {}
        THEN [ok |-> FALSE, parsers |-> <<>>, next |-> id,
              raised |-> [id |-> 0,
                          parser |-> new[CHOOSE i \in failing :
                                             \A j \in failing : i <= j]]]
        ELSE [ok |-> TRUE,
              parsers |-> [n \in {fields[i].name : i \in DOMAIN fields} |->
                              IF made(last(n))
                              THEN [id |-> object(last(n)), parser |-> new[last(n)]]
                              ELSE fields_get_parser(fields[last(n)])],
              next |-> id + Cardinality({j \in DOMAIN fields : made(j)}),
              raised |-> NoInstance]

CollectParsers(fields, id) ==
    Collect(fields, id, [i \in DOMAIN fields |-> NewParser(fields[i])])

\* factory.py:115  cls(parsers, component), or the error raised before it
Created(made) ==
    /\ Len(factories) < MaxFactories
    /\ made.next - 1 <= MaxObjects
    /\ IF made.ok
       THEN /\ factories' = Append(factories, [proxy |-> FALSE, parsers |-> made.parsers])
            /\ next_id' = made.next
            /\ result' = Outcome("from_component", NoField, NoInstance, FALSE, NoInstance)
       ELSE /\ result' = Outcome("from_component", NoField, NoInstance, TRUE, made.raised)
            /\ UNCHANGED <<factories, next_id>>
    /\ UNCHANGED builder_parsers

\* factory.py:97-115
from_component == Created(CollectParsers(fields_get_fields, next_id))

BuilderInit == RegistryImported /\ FactoryIdle

AddField ==
    /\ \E field \in Fields : add_field(field)
    /\ UNCHANGED <<reg_vars, loads_vars>>

Build == build /\ UNCHANGED <<reg_vars, loads_vars>>

FromComponent == from_component /\ UNCHANGED <<reg_vars, loads_vars>>

BuilderNext == AddField \/ Build \/ FromComponent

SpecBuilder == BuilderInit /\ [][BuilderNext]_vars

(***************************************************************************)
(* Claims on the builder                                                   *)
(***************************************************************************)
\* C7 as stated: add_field on a field name that was already added returns
\* the parser object recorded by the first call and leaves the recorded
\* binding as it was.
C7_AsStated ==
    (result.op = "add_field" /\ result.before # NoInstance) =>
        /\ ~result.raised
        /\ result.out = result.before
        /\ builder_parsers[result.field.name] = result.before

\* C7, amended: add_field records what it returns; it returns the parser
\* object the descriptor carries as it is, so that a repeated call with the
\* same descriptor returns the same object and leaves the binding unchanged;
\* for a descriptor without a parser every call builds a new parser object,
\* different from every object recorded before, and overwrites the binding.
C7_ExplicitReturnedAsIs ==
    (result.op = "add_field" /\ ~result.raised) =>
        /\ builder_parsers[result.field.name] = result.out
        /\ IF result.field.parser # NoInstance
           THEN /\ result.out = result.field.parser
                /\ (result.before = result.field.parser => result.out = result.before)
           ELSE /\ result.out.id # result.before.id
                /\ \A n \in DOMAIN builder_parsers \ {result.field.name} :
                       builder_parsers[n].id # result.out.id

\* add_field was called again for a name with a descriptor carrying the
\* parser object that was already recorded for it
C7_Witness ==
    /\ result.op = "add_field" /\ ~result.raised
    /\ result.before # NoInstance
    /\ result.field.parser # NoInstance
    /\ result.before = result.field.parser
    /\ builder_parsers[result.field.name] = result.before

\* C8: the parser add_field records and returns is the parser of the
\* descriptor when it carries one, and otherwise the parser get_parser
\* produces for the declared type (str when untyped), inner parsers included.
C8_RecordsResolvedParser ==
    (result.op = "add_field" /\ ~result.raised) =>
        /\ builder_parsers[result.field.name] = result.out
        /\ IF result.field.parser # NoInstance
           THEN result.out = result.field.parser
           ELSE result.out.parser =
                    get_parser(IF result.field.type = NoType
                               THEN Cls("str") ELSE result.field.type)

\* C9: no operation after build() changes the mapping seen through a
\* factory that was already built.
C9_BuiltFactoryImmutable ==
    [][\A i \in DOMAIN factories :
           FactoryParsers(factories[i])' = FactoryParsers(factories[i])]_vars

(***************************************************************************)
(* factory.py: ComponentFactory.loads, loads_param                         *)
(***************************************************************************)
MaxParams == 2

\* The interaction objects handed to loads as the source of the parsers
Interactions == {"inter1", "inter2"}

\* The raw strings of an identifier: an empty group, numerals, a word
RawValues == {"", "42", "3", "7", "x"}

\* int(argument): defined on the numerals, ValueError otherwise
IsNumeral(argument) == argument \in {"42", "3", "7"}

int(argument) ==
    CASE argument = "42" -> 42
      [] argument = "3" -> 3
      [] argument = "7" -> 7

\* Field values: integers, channels of a kind, None
Value(kind, id) == [kind |-> kind, id |-> id]

None == Value("None", 0)

Loaded(value) == [ok |-> TRUE, value |-> value, error |-> ""]

Failed(error) == [ok |-> FALSE, value |-> None, error |-> error]

\* channel.py:58, 92  inter.bot.get_channel(channel_id): the cache of the bot
\* of the interaction; the bot of inter1 has two channels cached, the one of
\* inter2 has none
get_channel(inter, channel_id) ==
    CASE inter = "inter1" /\ channel_id = 42 -> Value("TextChannel", 42)
      [] inter = "inter1" /\ channel_id = 3 -> Value("VoiceChannel", 3)
      [] OTHER -> None

\* channel.py:93  inter.bot.fetch_channel(channel_id): the channels that
\* exist remotely
fetch_channel(inter, channel_id) ==
    CASE channel_id = 42 -> Loaded(Value("TextChannel", 42))
      [] channel_id = 3 -> Loaded(Value("VoiceChannel", 3))
      [] channel_id = 7 -> Loaded(Value("TextChannel", 7))
      [] OTHER -> Failed("NotFound")

\* channel.py:85  the parser classes whose loads is a coroutine function
IsAsync(cls) == cls \in {"TextChannelParser", "CustomParser"}

\* channel.py:178-183, 275-280  parser_type of GetTextChannelParser and of
\* TextChannelParser
parser_type(cls) == "TextChannel"

\* channel.py:96-102  isinstance(channel, self.parser_type)
CheckedChannel(cls, channel) ==
    IF IsClass(channel.kind) /\ IsSubclassOf(channel.kind, parser_type(cls))
    THEN Loaded(channel) ELSE Failed("TypeError")

\* channel.py:60-62  a cache miss of the get-only parser
Missed_fetch(cls, source, argument) ==
    IF fetch_channel(source, int(argument)).ok
    THEN CheckedChannel(cls, fetch_channel(source, int(argument)).value)
    ELSE fetch_channel(source, int(argument))

Missed(cls, source, argument) == Failed("LookupError")

\* channel.py:53-70  GetChannelParserBase.loads
GetChannelLoads(cls, source, argument, channel) ==
    IF channel = None THEN Missed(cls, source, argument)
    ELSE CheckedChannel(cls, channel)

\* The loads of the parser classes without a coroutine: the get-only channel
\* parser and IntParser
SyncLoads(cls, source, argument) ==
    IF ~IsNumeral(argument) THEN Failed("ValueError")
    ELSE IF cls = "GetTextChannelParser"
    THEN GetChannelLoads(cls, source, argument, get_channel(source, int(argument)))
    ELSE Loaded(Value("int", int(argument)))

\* The component class: the names of its init keywords and their defaults
\* (user_id has none)
ComponentDefaults == [page |-> Value("int", 1), channel |-> None]

ComponentNames == {ComponentFields[i].name : i \in DOMAIN ComponentFields}

\* factory.py:181  self.component(**kwargs)
Component(kwargs) ==
    IF \/ DOMAIN kwargs \ ComponentNames # {}
       \/ ComponentNames \ (DOMAIN kwargs \cup DOMAIN ComponentDefaults) # {}
    THEN Failed("TypeError")
    ELSE [ok |-> TRUE, error |-> "",
          value |-> [n \in ComponentNames |->
                        IF n \in DOMAIN kwargs THEN kwargs[n] ELSE ComponentDefaults[n]]]

\* factory.py:178  if value
Truthy_always(value) == TRUE

Truthy(value) == value # ""

\* The mappings handed to loads: distinct names with raw values, in the
\* iteration order of the mapping
ParamNames == ComponentNames \cup {"extra"}

Params ==
    {s \in SeqUpTo([param : ParamNames, value : RawValues], MaxParams) :
         \A i, j \in DOMAIN s : i # j => s[i].param # s[j].param}

NoPending == [param |-> "", parser |-> NoInstance, argument |-> ""]

Frame(pc, factory, interaction, params, i, kwargs, pending, error, component) ==
    [pc |-> pc, factory |-> factory, interaction |-> interaction, params |-> params,
     i |-> i, kwargs |-> kwargs, pending |-> pending, error |-> error,
     component |-> component]

NoComponent == [n \in {} |-> None]

\* The call raised error
Raised_skip(error) ==
    [call EXCEPT !.pc = "loop", !.pending = NoPending,
                 !.i = IF call.i <= Len(call.params) THEN call.i + 1 ELSE call.i]

Raised(error) == [call EXCEPT !.pc = "raised", !.error = error, !.pending = NoPending]

\* The value of the field of the current entry was loaded
Collected_first(value) ==
    [call EXCEPT !.pc = "loop", !.i = call.i + 1, !.pending = NoPending,
                 !.kwargs = [n \in DOMAIN call.kwargs \cup {call.params[1].param} |->
                                IF n = call.params[1].param THEN value
                                ELSE call.kwargs[n]]]

Collected(value) ==
    [call EXCEPT !.pc = "loop", !.i = call.i + 1, !.pending = NoPending,
                 !.kwargs = [n \in DOMAIN call.kwargs \cup {call.params[call.i].param} |->
                                IF n = call.params[call.i].param THEN value
                                ELSE call.kwargs[n]]]

\* factory.py:141  loads_param awaits the coroutine the parser returned
Suspended_fanout(param, parser, argument) == [call EXCEPT !.i = call.i + 1]

Suspended_unawaited(param, parser, argument) == Collected(Value("coroutine", 0))

Suspended(param, parser, argument) ==
    [call EXCEPT !.pc = "await",
                 !.pending = [param |-> param, parser |-> parser, argument |-> argument]]

\* factory.py:168-174  a call of loads begins
loads(factory, interaction, params) ==
    /\ call.pc = "idle"
    /\ call' = Frame("loop", factory, interaction, params, 1, <<>>, NoPending, "",
                     NoComponent)
    /\ trace' = <<>>

\* factory.py:175-179, 139-141  one entry of params.items()
loads_param ==
    /\ call.pc = "loop"
    /\ call.i <= Len(call.params)
    /\ LET param == call.params[call.i].param
           value == call.params[call.i].value
           parsers == FactoryParsers(factories[call.factory])
       IN  IF ~Truthy(value)
           THEN /\ call' = [call EXCEPT !.i = call.i + 1]
                /\ UNCHANGED trace
           ELSE IF param \notin DOMAIN parsers
           THEN /\ call' = Raised("KeyError")
                /\ UNCHANGED trace
           ELSE /\ trace' = Append(trace, [param |-> param, parser |-> parsers[param],
                                           source |-> call.interaction,
                                           argument |-> value])
                /\ IF IsAsync(parsers[param].parser.cls)
                   THEN call' = Suspended(param, parsers[param], value)
                   ELSE LET loaded == SyncLoads(parsers[param].parser.cls,
                                                call.interaction, value)
                        IN  call' = IF loaded.ok THEN Collected(loaded.value)
                                    ELSE Raised(loaded.error)

\* factory.py:141, channel.py:90-102  the coroutine of the parser runs up to
\* the fetch, or to its end on a cache hit
await_loads ==
    /\ call.pc = "await"
    /\ LET argument == call.pending.argument
           cls == call.pending.parser.parser.cls
       IN  call' = IF ~IsNumeral(argument) THEN Raised("ValueError")
                   ELSE IF cls = "CustomParser"
                   THEN Collected(Value("int", int(argument)))
                   ELSE IF get_channel(call.interaction, int(argument)) # None
                   THEN LET checked ==
                                CheckedChannel(cls, get_channel(call.interaction,
                                                                int(argument)))
                        IN  IF checked.ok THEN Collected(checked.value)
                            ELSE Raised(checked.error)
                   ELSE [call EXCEPT !.pc = "fetch"]
    /\ UNCHANGED trace

\* channel.py:93-102  the fetch completes
fetch_done ==
    /\ call.pc = "fetch"
    /\ LET fetched == fetch_channel(call.interaction, int(call.pending.argument))
           checked == CheckedChannel(call.pending.parser.parser.cls, fetched.value)
       IN  call' = IF ~fetched.ok THEN Raised(fetched.error)
                   ELSE IF checked.ok THEN Collected(checked.value)
                   ELSE Raised(checked.error)
    /\ UNCHANGED trace

\* factory.py:181  the component is constructed and returned
loads_return ==
    /\ call.pc = "loop"
    /\ call.i > Len(call.params)
    /\ LET made == Component(call.kwargs)
       IN  call' = IF made.ok
                   THEN [call EXCEPT !.pc = "returned", !.component = made.value]
                   ELSE Raised(made.error)
    /\ UNCHANGED trace

\* factory.py:181, 197  the caller has the outcome of the call, its frame is
\* gone
finished ==
    /\ call.pc \in {"returned", "raised", "dumped"}
    /\ call' = [pc |-> "idle"]
    /\ trace' = <<>>

\* The factory of the component class, made by from_component at import
ImportedFactory(made) ==
    /\ factories = <<[proxy |-> FALSE, parsers |-> made.parsers]>>
    /\ next_id = made.next

LoadsInit ==
    /\ RegistryImported
    /\ builder_parsers = <<>>
    /\ ImportedFactory(CollectParsers(fields_get_fields, 1))
    /\ result = Outcome("from_component", NoField, NoInstance, FALSE, NoInstance)
    /\ call = [pc |-> "idle"]
    /\ trace = <<>>

Loads ==
    /\ call.pc = "idle"
    /\ \E factory \in DOMAIN factories, interaction \in Interactions, params \in Params :
           loads(factory, interaction, params)
    /\ UNCHANGED <<reg_vars, builder_vars>>

LoadsParam == loads_param /\ UNCHANGED <<reg_vars, builder_vars>>

AwaitLoads == await_loads /\ UNCHANGED <<reg_vars, builder_vars>>

FetchDone == fetch_done /\ UNCHANGED <<reg_vars, builder_vars>>

LoadsReturn == loads_return /\ UNCHANGED <<reg_vars, builder_vars>>

Finished == finished /\ UNCHANGED <<reg_vars, builder_vars>>

LoadsNext == Loads \/ LoadsParam \/ AwaitLoads \/ FetchDone \/ LoadsReturn \/ Finished

SpecLoads == LoadsInit /\ [][LoadsNext]_vars

(***************************************************************************)
(* Claims on ComponentFactory.loads                                        *)
(***************************************************************************)
\* The number of parser loads calls made for the entry named param
Invocations(param) == Cardinality({k \in DOMAIN trace : trace[k].param = param})

NonEmpty(params) == {params[j].param : j \in {k \in DOMAIN params : params[k].value # ""}}

\* C10: loads calls the loads of the parser of the field, with the
\* interaction of the caller, once for every entry with a non-empty raw
\* value and never for an empty one; the component is constructed with
\* keywords for exactly the non-empty entries, the other fields take the
\* defaults of the component.
C10_LoadsNonEmptyEntriesOnce ==
    call.pc # "idle" =>
        /\ \A k \in DOMAIN trace :
               /\ trace[k].source = call.interaction
               /\ trace[k].argument # ""
               /\ \E j \in DOMAIN call.params :
                      /\ call.params[j].param = trace[k].param
                      /\ call.params[j].value = trace[k].argument
               /\ trace[k].parser =
                      FactoryParsers(factories[call.factory])[trace[k].param]
        /\ \A j \in DOMAIN call.params :
               /\ Invocations(call.params[j].param) <= 1
               /\ call.params[j].value = "" => Invocations(call.params[j].param) = 0
        /\ call.pc = "returned" =>
               /\ \A n \in NonEmpty(call.params) : Invocations(n) = 1
               /\ Len(trace) = Cardinality(NonEmpty(call.params))
               /\ DOMAIN call.kwargs = NonEmpty(call.params)
               /\ \A n \in ComponentNames :
                      call.component[n] =
                          IF n \in NonEmpty(call.params)
                          THEN call.kwargs[n] ELSE ComponentDefaults[n]

\* A call returned a component for a mapping with a non-empty and an empty
\* entry: one parser call was made and the omitted field has its default
C10_Witness ==
    /\ call.pc = "returned"
    /\ call.params = <<[param |-> "page", value |-> ""],
                       [param |-> "user_id", value |-> "42"]>>
    /\ Len(trace) = 1
    /\ trace[1].param = "user_id" /\ trace[1].source = call.interaction
    /\ call.component["user_id"] = Value("int", 42)
    /\ call.component["page"] = ComponentDefaults["page"]

\* channel.py:85-102, with the loads of the other parsers: what the loads of
\* a parser of class cls gives for argument once it has run to its end
ParserLoads(cls, source, argument) ==
    IF ~IsAsync(cls) THEN SyncLoads(cls, source, argument)
    ELSE IF ~IsNumeral(argument) THEN Failed("ValueError")
    ELSE IF cls = "CustomParser" THEN Loaded(Value("int", int(argument)))
    ELSE IF get_channel(source, int(argument)) # None
    THEN CheckedChannel(cls, get_channel(source, int(argument)))
    ELSE IF ~fetch_channel(source, int(argument)).ok
    THEN fetch_channel(source, int(argument))
    ELSE CheckedChannel(cls, fetch_channel(source, int(argument)).value)

\* The outcome of the parser call recorded as trace[k]
TraceOutcome(k) ==
    ParserLoads(trace[k].parser.parser.cls, trace[k].source, trace[k].argument)

\* C11: when the parser of a field fails during loads, the call fails with
\* that error: every parser call but the last one made succeeded, a call
\* that goes on or returns had no failing parser call, the failed call holds
\* no component, the constructor having run only for calls whose entries
\* were all loaded, and a failed call makes no further step but to hand its
\* error to the caller.
C11_FirstErrorAborts ==
    /\ [](call.pc # "idle" =>
            /\ \A k \in DOMAIN trace :
                   (k < Len(trace) \/ call.pc \in {"loop", "returned"}) =>
                       TraceOutcome(k).ok
            /\ (call.pc = "raised" /\ trace # <<>> /\ ~TraceOutcome(Len(trace)).ok) =>
                   /\ call.error = TraceOutcome(Len(trace)).error
                   /\ call.i <= Len(call.params)
                   /\ call.params[call.i].param = trace[Len(trace)].param
                   /\ call.component = NoComponent
            /\ call.component # NoComponent <=> call.pc = "returned")
    /\ [][(call.pc = "raised" /\ call' # call) =>
              (call'.pc = "idle" /\ trace' = <<>>)]_vars

\* The parser of the first of two non-empty entries failed: one parser call
\* was made, the call raised its error and holds no component
C11_Witness ==
    /\ call.pc = "raised"
    /\ Len(call.params) = 2
    /\ call.params[1].value # "" /\ call.params[2].value # ""
    /\ call.params[2].param \in ComponentNames
    /\ Len(trace) = 1
    /\ ~TraceOutcome(1).ok
    /\ call.error = "ValueError"
    /\ call.component = NoComponent

(***************************************************************************)
(* factory.py: ComponentFactory.dumps, dumps_param                         *)
(***************************************************************************)
\* The strings that occur, and each of them as its sequence of characters
Strings == {"", "42", "3", "7", "x", "id"}

Chars(s) ==
    CASE s = "" -> <<>>
      [] s = "42" -> <<"4", "2">>
      [] s = "3" -> <<"3">>
      [] s = "7" -> <<"7">>
      [] s = "x" -> <<"x">>
      [] s = "id" -> <<"i", "d">>

String(chars) == CHOOSE s \in Strings : Chars(s) = chars

\* str(n) of the integers that occur
str(n) ==
    CASE n = 42 -> "42"
      [] n = 3 -> "3"
      [] n = 7 -> "7"

\* The identifier template of the component class: a literal prefix, then
\* the identifier fields in declaration order, with the separator between
Separator == ":"

Literal(s) == [literal |-> TRUE, text |-> s]

Placeholder(name) == [literal |-> FALSE, text |-> name]

custom_id ==
    <<Literal("id"), Literal(Separator), Placeholder("user_id"), Literal(Separator),
      Placeholder("page"), Literal(Separator), Placeholder("channel")>>

RECURSIVE Formatted(_, _)
\* The first n segments of the template with kwargs filled in
Formatted(kwargs, n) ==
    IF n = 0 THEN <<>>
    ELSE Formatted(kwargs, n - 1) \o
             (IF custom_id[n].literal
              THEN IF custom_id[n].text = Separator THEN <<Separator>>
                   ELSE Chars(custom_id[n].text)
              ELSE Chars(kwargs[custom_id[n].text]))

\* CustomID.format_map(kwargs)
format_map(kwargs) ==
    IF \E n \in DOMAIN custom_id :
           ~custom_id[n].literal /\ custom_id[n].text \notin DOMAIN kwargs
    THEN Failed("KeyError")
    ELSE [ok |-> TRUE, error |-> "", value |-> Formatted(kwargs, Len(custom_id))]

\* parser.dumps(value) of the parser classes: str for IntParser, the
\* snowflake_dumps of channel.py:50, 82 for the channel parsers
ParserDumps(cls, value) ==
    IF cls \in {"IntParser", "CustomParser"}
    THEN IF value.kind = "int" THEN Loaded(str(value.id)) ELSE Failed("TypeError")
    ELSE IF cls \in {"TextChannelParser", "GetTextChannelParser"}
    THEN IF value = None THEN Failed("AttributeError") ELSE Loaded(str(value.id))
    ELSE Failed("TypeError")

\* The parser classes whose dumps is a coroutine function: enum.py:115
IsAsyncDumps(cls) == cls \in {"EnumParser", "CustomParser"}

\* The instances of the component class: the identifier fields and a
\* presentation-only attribute
Instances ==
    [user_id : {Value("int", 42), Value("int", 3)},
     page : {Value("int", 3), Value("int", 7)},
     channel : {Value("TextChannel", 42), Value("TextChannel", 7), None},
     label : {"Click"}]

DumpsFrame(pc, factory, component, i, kwargs, pending, error, out) ==
    [pc |-> pc, factory |-> factory, component |-> component, i |-> i,
     kwargs |-> kwargs, pending |-> pending, error |-> error, out |-> out]

\* The string of the current field was dumped
Dumped_keep(name, string) == [call EXCEPT !.i = call.i + 1, !.pending = NoPending]

Dumped(name, string) ==
    [call EXCEPT !.pc = "dumps_loop", !.i = call.i + 1, !.pending = NoPending,
                 !.kwargs = [n \in DOMAIN call.kwargs \cup {name} |->
                                IF n = name THEN string ELSE call.kwargs[n]]]

\* factory.py:183-186  a call of dumps begins
dumps(factory, component) ==
    /\ call.pc = "idle"
    /\ call' = DumpsFrame("dumps_loop", factory, component, 1, <<>>, NoPending, "", <<>>)
    /\ trace' = <<>>

\* factory.py:192-194  the i-th field the comprehension of dumps visits
FieldAt_reversed(i) == fields_get_fields[Len(fields_get_fields) - i + 1]

FieldAt(i) == fields_get_fields[i]

\* factory.py:188-195, 164-166  one field of get_fields
dumps_param ==
    /\ call.pc = "dumps_loop"
    /\ call.i <= Len(fields_get_fields)
    /\ LET param == FieldAt(call.i).name
           value == call.component[param]
           parsers == FactoryParsers(factories[call.factory])
       IN  IF param \notin DOMAIN parsers
           THEN /\ call' = Raised("KeyError")
                /\ UNCHANGED trace
           ELSE /\ trace' = Append(trace, [param |-> param, parser |-> parsers[param],
                                           value |-> value])
                /\ IF IsAsyncDumps(parsers[param].parser.cls)
                   THEN call' = [call EXCEPT !.pc = "dumps_await",
                                    !.pending = [param |-> param,
                                                 parser |-> parsers[param],
                                                 argument |-> value]]
                   ELSE LET dumped == ParserDumps(parsers[param].parser.cls, value)
                        IN  call' = IF dumped.ok THEN Dumped(param, dumped.value)
                                    ELSE Raised(dumped.error)

\* factory.py:166  the coroutine of the parser runs to its end
await_dumps ==
    /\ call.pc = "dumps_await"
    /\ LET dumped == ParserDumps(call.pending.parser.parser.cls, call.pending.argument)
       IN  call' = IF dumped.ok THEN Dumped(call.pending.param, dumped.value)
                   ELSE Raised(dumped.error)
    /\ UNCHANGED trace

\* factory.py:197-199  the template is filled and the identifier returned
dumps_return ==
    /\ call.pc = "dumps_loop"
    /\ call.i > Len(fields_get_fields)
    /\ LET made == format_map(call.kwargs)
       IN  call' = IF made.ok THEN [call EXCEPT !.pc = "dumped", !.out = made.value]
                   ELSE Raised(made.error)
    /\ UNCHANGED trace

\* The parser object of the user: its loads and dumps are coroutine
\* functions that convert as those of IntParser do
CustomParser == CHOOSE parser \in ExplicitParsers : TRUE

\* The fields added to the builder: user_id and page, with the parser of
\* the user
BuilderFields ==
    <<Field(fields_get_fields[1].name, fields_get_fields[1].type, CustomParser),
      Field(fields_get_fields[2].name, fields_get_fields[2].type, CustomParser)>>

\* The factory of the component class made by from_component, and one built
\* by a builder to which only the first two fields were added
DumpsFactories(made, added) ==
    /\ factories = <<[proxy |-> FALSE, parsers |-> made.parsers],
                     [proxy |-> TRUE, parsers |-> <<>>]>>
    /\ builder_parsers = added.parsers
    /\ next_id = added.next

DumpsInit ==
    /\ RegistryImported
    /\ DumpsFactories(CollectParsers(fields_get_fields, 1),
                      CollectParsers(BuilderFields, 4))
    /\ result = Outcome("build", NoField, NoInstance, FALSE, NoInstance)
    /\ call = [pc |-> "idle"]
    /\ trace = <<>>

Dumps ==
    /\ call.pc = "idle"
    /\ \E factory \in DOMAIN factories, component \in Instances :
           dumps(factory, component)
    /\ UNCHANGED <<reg_vars, builder_vars>>

DumpsParam == dumps_param /\ UNCHANGED <<reg_vars, builder_vars>>

AwaitDumps == await_dumps /\ UNCHANGED <<reg_vars, builder_vars>>

DumpsReturn == dumps_return /\ UNCHANGED <<reg_vars, builder_vars>>

DumpsNext == Dumps \/ DumpsParam \/ AwaitDumps \/ DumpsReturn \/ Finished

SpecDumps == DumpsInit /\ [][DumpsNext]_vars

\* The positions of the separator in chars
Separators(chars) == {p \in DOMAIN chars : chars[p] = Separator}

\* The k-th of the pieces the separators cut chars into
Segment(chars, k) ==
    LET at(j) == IF j = 0 THEN 0
                 ELSE IF j > Cardinality(Separators(chars)) THEN Len(chars) + 1
                 ELSE CHOOSE p \in Separators(chars) :
                          Cardinality({q \in Separators(chars) : q <= p}) = j
    IN  SubSeq(chars, at(k - 1) + 1, at(k) - 1)

\* The placeholders of the template, in its order
Placeholders == SelectSeq(custom_id, LAMBDA segment : ~segment.literal)

\* CustomID.match(raw, strict=True).groupdict(): the pieces between the
\* separators, by placeholder, when raw has the prefix and as many pieces as
\* the template
match(raw) ==
    IF \/ Cardinality(Separators(raw)) # Len(Placeholders)
       \/ Segment(raw, 1) # Chars(custom_id[1].text)
    THEN Failed("ValueError")
    ELSE [ok |-> TRUE, error |-> "",
          value |-> [k \in DOMAIN Placeholders |->
                        [param |-> Placeholders[k].text,
                         value |-> String(Segment(raw, k + 1))]]]

\* select.py:51-65  the identifier dumps returned comes back with an
\* interaction: it is matched against the template and the groups are handed
\* to loads of the factory; sent is the component the identifier was made of
component_loads(interaction) ==
    /\ call.pc = "dumped"
    /\ LET matched == match(call.out)
       IN  call' = IF ~matched.ok THEN Raised(matched.error)
                   ELSE [pc |-> "loop", factory |-> call.factory,
                         interaction |-> interaction, params |-> matched.value,
                         i |-> 1, kwargs |-> <<>>, pending |-> NoPending,
                         error |-> "", component |-> NoComponent,
                         sent |-> call.component]
    /\ trace' = <<>>

ComponentLoads ==
    /\ \E interaction \in Interactions : component_loads(interaction)
    /\ UNCHANGED <<reg_vars, builder_vars>>

\* loads and dumps calls of the two factories, one call at a time
FactoryNext == LoadsNext \/ DumpsNext \/ ComponentLoads

SpecFactory == DumpsInit /\ [][FactoryNext]_vars

(***************************************************************************)
(* Claims on the order of the parser calls                                 *)
(***************************************************************************)
\* The place of the field called name in the declaration order
DeclarationIndex(name) ==
    CHOOSE i \in DOMAIN fields_get_fields : fields_get_fields[i].name = name

\* The place of the entry called name in the mapping handed to loads
ItemIndex(name) == CHOOSE j \in DOMAIN call.params : call.params[j].param = name

\* C12 as stated: within a loads call and within a dumps call the parsers of
\* the fields are called in the declaration order of the fields, whatever
\* the iteration order of the mapping handed to loads.
C12_AsStated ==
    \A k, l \in DOMAIN trace :
        k < l => DeclarationIndex(trace[k].param) < DeclarationIndex(trace[l].param)

\* C12, amended: loads calls the parsers in the iteration order of the
\* mapping handed in, dumps calls them in the declaration order of the
\* fields.
C12_MappingOrder ==
    \A k, l \in DOMAIN trace :
        k < l =>
            IF "params" \in DOMAIN call
            THEN ItemIndex(trace[k].param) < ItemIndex(trace[l].param)
            ELSE DeclarationIndex(trace[k].param) < DeclarationIndex(trace[l].param)

\* loads returned for a mapping that lists page before user_id: the parser
\* of page was called first
C12_Witness ==
    /\ call.pc = "returned"
    /\ Len(call.params) = 2
    /\ call.params[1].param = "page" /\ call.params[2].param = "user_id"
    /\ Len(trace) = 2
    /\ trace[1].param = "page" /\ trace[2].param = "user_id"

\* The parser calls of the current loads or dumps call that have ended:
\* those whose result was collected, and the one that raised
Completed ==
    Cardinality(DOMAIN call.kwargs) +
        (IF /\ call.pc = "raised" /\ trace # <<>>
            /\ trace[Len(trace)].param \notin DOMAIN call.kwargs
         THEN 1 ELSE 0)

\* The parser calls that were started and have not ended
InFlight == Len(trace) - Completed

\* C13: within one loads or dumps call at most one parser call is in
\* flight, and that only while the call is suspended in it; a parser
\* call is started only when every earlier one has ended.
C13_NoFanOut ==
    /\ [](call.pc # "idle" =>
            /\ InFlight \in {0, 1}
            /\ InFlight = 1 <=> call.pc \in {"await", "fetch", "dumps_await"})
    /\ [][(call.pc # "idle" /\ Len(trace') > Len(trace)) =>
              (InFlight = 0 /\ Len(trace') = Len(trace) + 1)]_vars

\* A loads call is suspended in the parser of its second entry after the
\* suspending parser of its first entry has ended
C13_Witness ==
    /\ call.pc \in {"await", "fetch"}
    /\ Len(trace) = 2
    /\ IsAsync(trace[1].parser.parser.cls)
    /\ IsAsync(trace[2].parser.parser.cls)
    /\ DOMAIN call.kwargs = {trace[1].param}
    /\ InFlight = 1

(***************************************************************************)
(* Claims on ComponentFactory.dumps                                        *)
(***************************************************************************)
\* The names of the identifier fields
IdentifierNames == {fields_get_fields[i].name : i \in DOMAIN fields_get_fields}

\* What the parser the factory of the call holds for the field gives for
\* the attribute of the component, and a KeyError when it holds none
FieldDumps(name) ==
    IF name \notin DOMAIN FactoryParsers(factories[call.factory])
    THEN Failed("KeyError")
    ELSE ParserDumps(FactoryParsers(factories[call.factory])[name].parser.cls,
                     call.component[name])

\* C14: dumps calls, for the identifier fields in turn and for no other
\* attribute, the dumps of the parser the factory holds for the field with
\* the current attribute value; it returns the template filled with those
\* strings, and when the dumps of a field fails or the factory holds no
\* parser for it the call raises that error and returns no identifier.
C14_DumpsFillsTemplate ==
    call.pc # "idle" =>
        /\ \A k \in DOMAIN trace :
               /\ trace[k].param = fields_get_fields[k].name
               /\ trace[k].parser =
                      FactoryParsers(factories[call.factory])[trace[k].param]
               /\ trace[k].value = call.component[trace[k].param]
        /\ call.out # <<>> <=> call.pc = "dumped"
        /\ call.pc = "dumped" =>
               /\ \A n \in IdentifierNames : FieldDumps(n).ok
               /\ Len(trace) = Len(fields_get_fields)
               /\ DOMAIN call.kwargs = IdentifierNames
               /\ \A n \in IdentifierNames : call.kwargs[n] = FieldDumps(n).value
               /\ call.out = Chars("id") \o <<":">> \o Chars(call.kwargs["user_id"])
                                 \o <<":">> \o Chars(call.kwargs["page"])
                                 \o <<":">> \o Chars(call.kwargs["channel"])
        /\ call.pc = "raised" =>
               /\ call.i <= Len(fields_get_fields)
               /\ ~FieldDumps(fields_get_fields[call.i].name).ok
               /\ call.error = FieldDumps(fields_get_fields[call.i].name).error
               /\ \A j \in 1..(call.i - 1) : FieldDumps(fields_get_fields[j].name).ok

\* dumps returned the identifier of a component with user_id 42, page 3 and
\* the channel 7
C14_Witness ==
    /\ call.pc = "dumped"
    /\ call.component.user_id = Value("int", 42)
    /\ call.component.page = Value("int", 3)
    /\ call.component.channel = Value("TextChannel", 7)
    /\ call.out = <<"i", "d", ":", "4", "2", ":", "3", ":", "7">>

(***************************************************************************)
(* Claims on the round trip through the identifier                         *)
(***************************************************************************)
\* C15: when dumps returned the identifier of a component, matching it
\* against the template and handing the groups to loads does not fail and
\* returns a component whose identifier fields have the values of the one
\* that was dumped.
C15_RoundTrip ==
    "sent" \in DOMAIN call =>
        /\ call.pc # "raised"
        /\ \A j \in DOMAIN call.params :
               /\ call.params[j].param = fields_get_fields[j].name
               /\ call.params[j].value # ""
        /\ call.pc = "returned" =>
               \A n \in IdentifierNames : call.component[n] = call.sent[n]

\* The component with user_id 42, page 3 and the channel 7, which is not in
\* the cache, came back from its identifier
C15_Witness ==
    /\ "sent" \in DOMAIN call
    /\ call.pc = "returned"
    /\ call.params = <<[param |-> "user_id", value |-> "42"],
                       [param |-> "page", value |-> "3"],
                       [param |-> "channel", value |-> "7"]>>
    /\ call.component.user_id = Value("int", 42)
    /\ call.component.page = Value("int", 3)
    /\ call.component.channel = Value("TextChannel", 7)

(***************************************************************************)
(* Claims on synchronous and suspending parsers                            *)
(***************************************************************************)
\* The fields for which one factory holds the synchronous IntParser and the
\* other the parser of the user, whose loads and dumps are coroutines
IntFields == {"user_id", "page"}

\* The raw value of the entry called name in the mapping handed to loads
Raw(name) == call.params[ItemIndex(name)].value

\* C16: the value loads_param and dumps_param give for a field is the one
\* the conversion of its parser gives, the same whether the factory holds
\* the synchronous parser or the suspending one for the field, and it is
\* never the coroutine the parser returned.
C16_UniformAwait ==
    call.pc # "idle" =>
        \A n \in DOMAIN call.kwargs :
            IF "params" \in DOMAIN call
            THEN /\ call.kwargs[n] # Value("coroutine", 0)
                 /\ n \in IntFields =>
                        call.kwargs[n] = SyncLoads("IntParser", call.interaction, Raw(n)).value
                 /\ call.kwargs[n] =
                        ParserLoads(FactoryParsers(factories[call.factory])[n].parser.cls,
                                    call.interaction, Raw(n)).value
            ELSE /\ call.kwargs[n] \in Strings \ {""}
                 /\ n \in IntFields =>
                        call.kwargs[n] = ParserDumps("IntParser", call.component[n]).value
                 /\ call.kwargs[n] = FieldDumps(n).value

\* loads of the factory that holds the suspending parser for user_id went
\* on with the integer its coroutine gave
C16_Witness ==
    /\ call.pc \in {"loop", "returned"}
    /\ "params" \in DOMAIN call
    /\ "user_id" \in DOMAIN call.kwargs
    /\ IsAsync(FactoryParsers(factories[call.factory])["user_id"].parser.cls)
    /\ call.kwargs["user_id"] = Value("int", 42)

(***************************************************************************)
(* enum.py: _get_enum_type, EnumParser                                     *)
(***************************************************************************)
\* A value of a builtin type, by its type and its canonical text
PyValue(type, repr) == [type |-> type, repr |-> repr]

Member(name, value) == [name |-> name, value |-> value]

\* An enum or flag class: whether it derives from disnake.flags.BaseFlags,
\* its _member_type_, its members in definition order
EnumClass(name, flags, member_type, members) ==
    [name |-> name, flags |-> flags, member_type |-> member_type, members |-> members]

EnumClasses ==
    {EnumClass("Color", FALSE, "object",
               <<Member("RED", PyValue("int", "3")), Member("GREEN", PyValue("int", "7"))>>),
     EnumClass("Mood", FALSE, "object",
               <<Member("RED", PyValue("str", "x")), Member("GREEN", PyValue("str", "RED"))>>),
     EnumClass("Ratio", FALSE, "object", <<Member("RED", PyValue("float", "1.5"))>>),
     EnumClass("Mixed", FALSE, "object",
               <<Member("RED", PyValue("int", "3")), Member("GREEN", PyValue("str", "x"))>>),
     EnumClass("Level", FALSE, "int", <<Member("RED", PyValue("int", "3"))>>),
     EnumClass("Empty", FALSE, "object", <<>>),
     EnumClass("Intents", TRUE, "object", <<>>)}

\* The store_by_value argument: None when it is not passed
StoreByValue == {"None", "True", "False"}

\* enum.py:16-35  "None" when the members have no single type
_get_enum_type(enum_class) ==
    IF enum_class.flags THEN Loaded("int")
    ELSE IF enum_class.member_type # "object" THEN Loaded(enum_class.member_type)
    ELSE IF enum_class.members = <<>> THEN Failed("StopIteration")
    ELSE IF \A i \in DOMAIN enum_class.members :
                enum_class.members[i].value.type = enum_class.members[1].value.type
    THEN Loaded(enum_class.members[1].value.type)
    ELSE Loaded("None")

\* The parser object __init__ leaves
EnumParser(enum_class, store_by_value, value_type, value_parser) ==
    [ok |-> TRUE, error |-> "", enum_class |-> enum_class,
     store_by_value |-> store_by_value, value_type |-> value_type,
     value_parser |-> value_parser]

\* enum.py:85-89  issubclass(value_type, int) if store_by_value is None
DefaultPolicy_numeric(value_type) ==
    IsSubclassOf(value_type, "int") \/ value_type = "float"

DefaultPolicy(value_type) == IsSubclassOf(value_type, "int")

\* enum.py:102-103  the parser with the value parser get_parser gives
WithValueParser(enum_class, store_by_value, value_type, value_parser) ==
    IF value_parser.ok
    THEN EnumParser(enum_class, store_by_value, value_type, value_parser.cls)
    ELSE Failed("TypeError")

\* enum.py:61-103  EnumParser(enum_class, store_by_value=store_by_value)
EnumParser__init__(enum_class, store_by_value) ==
    LET value_type == _get_enum_type(enum_class)
    IN  IF ~value_type.ok THEN value_type
        ELSE IF enum_class.flags /\ store_by_value = "False" THEN Failed("ValueError")
        ELSE IF value_type.value = "None" /\ store_by_value # "True"
        THEN WithValueParser(enum_class, FALSE, "str", get_parser(Cls("str")))
        ELSE IF value_type.value # "None"
        THEN WithValueParser(enum_class,
                             IF store_by_value = "None"
                             THEN DefaultPolicy(value_type.value)
                             ELSE store_by_value = "True",
                             value_type.value, get_parser(Cls(value_type.value)))
        ELSE Failed("ValueError")

\* The frame of a parser object and the last call made on it
EnumFrame(pc, given, parser, op, argument, sent, out, error) ==
    [pc |-> pc, given |-> given, parser |-> parser, op |-> op, argument |-> argument,
     sent |-> sent, out |-> out, error |-> error]

NoMember == Member("", PyValue("", ""))

\* enum.py:61-103  a parser is constructed
enum_init(enum_class, store_by_value) ==
    /\ call.pc = "idle"
    /\ LET parser == EnumParser__init__(enum_class, store_by_value)
           given == [enum_class |-> enum_class, store_by_value |-> store_by_value]
       IN  call' = IF parser.ok
                   THEN EnumFrame("ready", given, parser, "init", "", NoMember, NoMember, "")
                   ELSE EnumFrame("raised", given, parser, "init", "", NoMember, NoMember,
                                  parser.error)
    /\ UNCHANGED trace

\* The raw strings handed to loads of an enum parser
EnumArguments == {"3", "7", "x", "RED", "GREEN", "1.5"}

\* float(argument), by its canonical text
float(argument) ==
    CASE argument = "1.5" -> "1.5"
      [] argument = "3" -> "3.0"
      [] argument = "7" -> "7.0"
      [] argument = "42" -> "42.0"

\* The loads of the parsers of the builtin types
ValueLoads(cls, argument) ==
    CASE cls = "StringParser" -> Loaded(PyValue("str", argument))
      [] cls = "IntParser" ->
            IF IsNumeral(argument) THEN Loaded(PyValue("int", str(int(argument))))
            ELSE Failed("ValueError")
      [] cls = "FloatParser" ->
            IF IsNumeral(argument) \/ argument = "1.5"
            THEN Loaded(PyValue("float", float(argument)))
            ELSE Failed("ValueError")

\* The dumps of the parsers of the builtin types: str(value)
ValueDumps(cls, value) == Loaded(value.repr)

\* enum.py:111  enum_class(parsed)
ByValue(enum_class, parsed) ==
    LET hits == {i \in DOMAIN enum_class.members : enum_class.members[i].value = parsed}
    IN  IF hits = {} THEN Failed("ValueError")
        ELSE Loaded(enum_class.members[CHOOSE i \in hits : \A j \in hits : i <= j])

\* enum.py:113  enum_class[parsed]
ByName(enum_class, parsed) ==
    LET hits == {i \in DOMAIN enum_class.members :
                     parsed.type = "str" /\ enum_class.members[i].name = parsed.repr}
    IN  IF hits = {} THEN Failed("KeyError")
        ELSE Loaded(enum_class.members[CHOOSE i \in hits : TRUE])

\* enum.py:105-108  loads(argument) is called and awaits try_loads; sent is
\* the member whose dumped string argument is, if it is one
enum_loads(argument, sent) ==
    /\ call.pc = "ready"
    /\ ~call.parser.enum_class.flags
    /\ call' = [call EXCEPT !.pc = "try_loads", !.op = "loads", !.argument = argument,
                            !.sent = sent, !.out = NoMember, !.error = ""]
    /\ UNCHANGED trace

\* enum.py:108-113  the value parser has loaded, the member is looked up
enum_loaded ==
    /\ call.pc = "try_loads"
    /\ LET parsed == ValueLoads(call.parser.value_parser, call.argument)
           found == IF call.parser.store_by_value
                    THEN ByValue(call.parser.enum_class, parsed.value)
                    ELSE ByName(call.parser.enum_class, parsed.value)
       IN  call' = IF ~parsed.ok THEN [call EXCEPT !.pc = "ready", !.error = parsed.error]
                   ELSE IF ~found.ok THEN [call EXCEPT !.pc = "ready", !.error = found.error]
                   ELSE [call EXCEPT !.pc = "ready", !.out = found.value]
    /\ UNCHANGED trace

\* enum.py:115-123  dumps(member) is called
enum_dumps(member) ==
    /\ call.pc = "ready"
    /\ ~call.parser.enum_class.flags
    /\ call' = [call EXCEPT !.pc = "eval_dumps", !.op = "dumps", !.argument = "",
                            !.sent = member, !.out = NoMember, !.error = ""]
    /\ UNCHANGED trace

\* enum.py:117-125  the value parser has dumped the value or the name of the
\* member; the string is kept as argument
enum_dumped ==
    /\ call.pc = "eval_dumps"
    /\ LET dumped == IF call.parser.store_by_value
                     THEN ValueDumps(call.parser.value_parser, call.sent.value)
                     ELSE ValueDumps(call.parser.value_parser,
                                     PyValue("str", call.sent.name))
       IN  call' = IF dumped.ok THEN [call EXCEPT !.pc = "ready", !.argument = dumped.value]
                   ELSE [call EXCEPT !.pc = "ready", !.error = dumped.error]
    /\ UNCHANGED trace

\* The parser object is dropped
released ==
    /\ call.pc \in {"ready", "raised"}
    /\ "given" \in DOMAIN call
    /\ call' = [pc |-> "idle"]
    /\ UNCHANGED trace

EnumInit == RegistryImported /\ FactoryIdle

Members(enum_class) == {enum_class.members[i] : i \in DOMAIN enum_class.members}

EnumConstruct ==
    /\ \E enum_class \in EnumClasses, store_by_value \in StoreByValue :
           enum_init(enum_class, store_by_value)
    /\ UNCHANGED <<reg_vars, builder_vars>>

EnumLoads ==
    /\ \E argument \in EnumArguments : enum_loads(argument, NoMember)
    /\ UNCHANGED <<reg_vars, builder_vars>>

\* loads of the string the dumps before gave
EnumLoadsDumped ==
    /\ call.pc = "ready" /\ call.op = "dumps" /\ call.error = ""
    /\ enum_loads(call.argument, call.sent)
    /\ UNCHANGED <<reg_vars, builder_vars>>

EnumLoaded == enum_loaded /\ UNCHANGED <<reg_vars, builder_vars>>

EnumDumps ==
    /\ call.pc = "ready"
    /\ \E member \in Members(call.parser.enum_class) : enum_dumps(member)
    /\ UNCHANGED <<reg_vars, builder_vars>>

EnumDumped == enum_dumped /\ UNCHANGED <<reg_vars, builder_vars>>

Released == released /\ UNCHANGED <<reg_vars, builder_vars>>

EnumNext ==
    \/ EnumConstruct \/ EnumLoads \/ EnumLoadsDumped \/ EnumLoaded
    \/ EnumDumps \/ EnumDumped \/ Released

SpecEnum == EnumInit /\ [][EnumNext]_vars

(***************************************************************************)
(* Claims on EnumParser                                                    *)
(***************************************************************************)
\* The types of the member values of an enum or flag class
ValueTypes(enum_class) ==
    IF enum_class.flags THEN {"int"}
    ELSE IF enum_class.member_type # "object" THEN {enum_class.member_type}
    ELSE {enum_class.members[i].value.type : i \in DOMAIN enum_class.members}

\* The one type of the member values
ValueType(enum_class) == CHOOSE type \in ValueTypes(enum_class) : TRUE

Numeric(type) == type \in {"int", "bool", "float"}

C18_LoadsInvertsDumps ==
    ("given" \in DOMAIN call /\ call.pc = "ready" /\ call.op = "loads") =>
        /\ call.error = "" =>
               /\ call.out \in Members(call.parser.enum_class)
               /\ IF call.parser.store_by_value
                  THEN call.out.value.repr = call.argument
                  ELSE call.out.name = call.argument
        /\ call.error # "" => call.out = NoMember
        /\ call.sent # NoMember => (call.error = "" /\ call.out = call.sent)

(***************************************************************************)
(* Claims on the two indexes of the registry                               *)
(***************************************************************************)
\* C19: after any register calls, type t is bound to parser class p in
\* _PARSERS exactly when t is among the types _REV_PARSERS holds for p, the
\* types default_types() returns.
C19_IndexesAgree ==
    \A p \in ParserClasses, t \in LookupClasses :
        (t \in DOMAIN _PARSERS /\ _PARSERS[t] = p)
            <=> (InReverse(p) /\ t \in Range(RevTypes(p)))

\* Parser class Y was just registered by force for type t, for which parser
\* class X, first registered before Y, is registered too
Overridden(X, Y, t) ==
    /\ X # Y
    /\ ret.op = "register_parser" /\ ret.force /\ ret.parser = Y
    /\ t \in {TypeKey(ret.types[i]) : i \in DOMAIN ret.types}
    /\ InReverse(X) /\ t \in Range(RevTypes(X))
    /\ FirstIn(first_order, {X, Y}) = X

\* C20: when Y is registered by force for a type t that X was registered
\* for, the lookup of t and the lookup of every subclass of t without a
\* registration of its own both return Y.
C20_OverrideAgrees ==
    \A X \in ParserClasses, Y \in ParserClasses, t \in LookupClasses :
        Overridden(X, Y, t) =>
            /\ _get_parser_type(t) = Returned(Y)
            /\ \A s \in LookupClasses :
                   (s # t /\ IsSubclassOf(s, t) /\ s \notin DOMAIN _PARSERS) =>
                       _get_parser_type(s) = Returned(Y)

(***************************************************************************)
(* channel.py: GetChannelParserBase.loads, ChannelParserBase.loads         *)
(***************************************************************************)
\* A GetTextChannelParser object the user made and handed to a field
GetOnlyParser == [id |-> 102, parser |-> default("GetTextChannelParser")]

\* The fields of a component class whose channel field is given the get-only
\* parser
GetOnlyFields ==
    <<fields_get_fields[1], fields_get_fields[2],
      Field(fields_get_fields[3].name, fields_get_fields[3].type, GetOnlyParser)>>

\* The factories from_component made of the two component classes: the
\* first holds the fetching TextChannelParser, the default of TextChannel,
\* the second the get-only parser
ChannelFactories(made, given) ==
    /\ factories = <<[proxy |-> FALSE, parsers |-> made.parsers],
                     [proxy |-> FALSE, parsers |-> given.parsers]>>
    /\ next_id = given.next

ChannelsInit ==
    /\ RegistryImported
    /\ builder_parsers = <<>>
    /\ ChannelFactories(CollectParsers(fields_get_fields, 1),
                        CollectParsers(GetOnlyFields, 4))
    /\ result = Outcome("from_component", NoField, NoInstance, FALSE, NoInstance)
    /\ call = [pc |-> "idle"]
    /\ trace = <<>>

SpecChannels == ChannelsInit /\ [][LoadsNext]_vars

(***************************************************************************)
(* Claims on the channel parsers                                           *)
(***************************************************************************)
ChannelParsers == {"GetTextChannelParser", "TextChannelParser"}

\* channel is an instance of the channel type declared by the parser class
IsInstance(channel, cls) ==
    /\ channel # None
    /\ IsClass(channel.kind)
    /\ IsSubclassOf(channel.kind, parser_type(cls))

\* The cache of the bot of the interaction holds no channel for the numeral
CacheMiss(source, argument) == get_channel(source, int(argument)) = None

\* The call raised error, or went on with value for the entry named param
Ended(frame, error) == frame.pc = "raised" /\ frame.error = error

Kept(frame, param, value) ==
    /\ frame.pc = "loop"
    /\ param \in DOMAIN frame.kwargs
    /\ frame.kwargs[param] = value

\* C21: a fetch of the fetching channel parser is in flight only after the
\* cache of the bot had no channel for the decoded id; the get-only parser
\* never suspends or fetches and its call fails with LookupError on a cache
\* miss; a channel found in the cache or fetched that is not an instance of
\* the channel type of the parser makes the call fail with TypeError, and
\* every value a channel parser gave is an instance of that type.
C21_ChannelLookup ==
    /\ [](call.pc \in {"await", "fetch"} =>
            call.pending.parser.parser.cls # "GetTextChannelParser")
    /\ [](call.pc = "fetch" =>
            /\ call.pending.parser.parser.cls = "TextChannelParser"
            /\ IsNumeral(call.pending.argument)
            /\ CacheMiss(call.interaction, call.pending.argument))
    /\ [](call.pc # "idle" =>
            \A n \in DOMAIN call.kwargs :
                FactoryParsers(factories[call.factory])[n].parser.cls \in ChannelParsers =>
                    IsInstance(call.kwargs[n],
                               FactoryParsers(factories[call.factory])[n].parser.cls))
    /\ [][(/\ Len(trace') = Len(trace) + 1
           /\ trace'[Len(trace')].parser.parser.cls = "GetTextChannelParser"
           /\ IsNumeral(trace'[Len(trace')].argument)) =>
              LET made == trace'[Len(trace')]
                  cached == get_channel(made.source, int(made.argument))
              IN  IF CacheMiss(made.source, made.argument)
                  THEN Ended(call', "LookupError")
                  ELSE IF IsInstance(cached, made.parser.parser.cls)
                  THEN Kept(call', made.param, cached)
                  ELSE Ended(call', "TypeError")]_vars
    /\ [][(/\ call.pc = "await"
           /\ call.pending.parser.parser.cls = "TextChannelParser"
           /\ IsNumeral(call.pending.argument)
           /\ call' # call) =>
              LET cached == get_channel(call.interaction, int(call.pending.argument))
              IN  IF CacheMiss(call.interaction, call.pending.argument)
                  THEN call'.pc = "fetch"
                  ELSE IF IsInstance(cached, call.pending.parser.parser.cls)
                  THEN Kept(call', call.pending.param, cached)
                  ELSE Ended(call', "TypeError")]_vars
    /\ [][(call.pc = "fetch" /\ call' # call) =>
              LET fetched == fetch_channel(call.interaction, int(call.pending.argument))
              IN  IF ~fetched.ok THEN Ended(call', fetched.error)
                  ELSE IF IsInstance(fetched.value, call.pending.parser.parser.cls)
                  THEN Kept(call', call.pending.param, fetched.value)
                  ELSE Ended(call', "TypeError")]_vars

\* loads of the factory with the fetching parser, for an interaction whose
\* bot has nothing cached, fetched the channel 3, a voice channel, and failed
\* with TypeError after the user_id was loaded
C21_Witness ==
    /\ call.pc = "raised"
    /\ call.error = "TypeError"
    /\ call.interaction = "inter2"
    /\ FactoryParsers(factories[call.factory])["channel"].parser.cls = "TextChannelParser"
    /\ call.params = <<[param |-> "user_id", value |-> "42"],
                       [param |-> "channel", value |-> "3"]>>
    /\ Len(trace) = 2
    /\ CacheMiss(trace[2].source, trace[2].argument)
    /\ ~IsInstance(fetch_channel(trace[2].source, int(trace[2].argument)).value,
                   "TextChannelParser")

====
